---- MODULE Spec2Model ----
(***************************************************************************)
(* Model of the decision simulator component (DecisionMaker.jsx): the      *)
(* pity ledger, the selection engine and the spin scheduler.               *)
(*                                                                         *)
(* React state (useState) and refs (useRef) are the variables.  An event   *)
(* handler runs against the current render; a timer callback created by    *)
(* startDecision runs against the render in which the spin was started,    *)
(* so the values it closes over are kept in the record `spin`.             *)
(* Indices are 0-based as in the code; a list element i is arr[i + 1].     *)
(***************************************************************************)
EXTENDS Integers, Sequences, FiniteSets, TLC

\* ---------------------------------------------------------------- bounds
MaxLen == 2          \* longest option list
MaxCount == 3        \* no spin starts once a miss-count reached this value
MaxHist == 1         \* no spin starts once the history holds this many entries
TimeSteps == 1       \* clock readings per spin duration
MaxSpins == 4        \* spins of the natural-completion specification

Options == {"A", "B"}
PresetIds == {"p1"}
Scopes == {"global"} \cup PresetIds

\* ------------------------------------------------------- program constants
HISTORY_PAGE_SIZE == 10
BASE_DELAY == 30
ESTIMATED_FACTOR == 11
MIN_TICKS == 10
MIN_DESIRED_MS == 300
DEFAULT_SOFT_INCREMENT == 1
DEFAULT_HARD_THRESHOLD == 12
DEFAULT_CAP == 5

Min(a, b) == IF a < b THEN a ELSE b
Max(a, b) == IF a > b THEN a ELSE b

\* Math.round of the non-negative quotient n / d
RoundDiv(n, d) == (2 * n + d) \div (2 * d)

\* JS `Number(x) || dflt`
OrDefault(x, dflt) == IF x = 0 THEN dflt ELSE x

EmptyMap == [k \in {} |-> 0]

\* obj[key] of a JS object used as a map; absent reads as 0 (`|| 0`)
CountOf(counts, key) == IF key \in DOMAIN counts THEN counts[key] ELSE 0

\* copy[k] = v
SetKey(m, k, v) == [x \in (DOMAIN m) \cup {k} |-> IF x = k THEN v ELSE m[x]]

\* delete copy[k]
DelKey(m, k) == [x \in (DOMAIN m) \ {k} |-> m[x]]

\* (all && all[k]) ? { ...all[k] } : {}
ScopeCounts(all, k) == IF k \in DOMAIN all THEN all[k] ELSE EmptyMap

\* new Set(hardHitsAll[keyScope] || [])
ScopeHits(all, k) == IF k \in DOMAIN all THEN all[k] ELSE {}

Lists == UNION {[1..n -> Options] : n \in 0..MaxLen}

Range(s) == {s[i] : i \in DOMAIN s}

DEFAULT_DICE ==
  << [num |-> 1, sec |-> 3], [num |-> 2, sec |-> 5], [num |-> 3, sec |-> 7],
     [num |-> 4, sec |-> 8], [num |-> 5, sec |-> 9], [num |-> 6, sec |-> 10] >>

DEFAULT_PITY_SETTINGS ==
  [enabled |-> TRUE, softIncrement |-> DEFAULT_SOFT_INCREMENT,
   hardThreshold |-> DEFAULT_HARD_THRESHOLD, softMultiplierCap |-> DEFAULT_CAP,
   autoResetWhenAllHardHit |-> FALSE]

\* ------------------------------------------------------ selection engine

\* weightedRandomIndex: `twiceR` is twice the draw r = Math.random() * total,
\* taken on the half-integer grid of [0, total); `u` is the uniform fallback.
RECURSIVE WeightedLoop(_, _, _)
WeightedLoop(weights, i, rem) ==
  IF i > Len(weights) THEN Len(weights) - 1
  ELSE LET r == rem - 2 * Max(0, weights[i])
       IN IF r <= 0 THEN i - 1 ELSE WeightedLoop(weights, i + 1, r)

RECURSIVE SumWeights(_, _)
SumWeights(weights, i) ==
  IF i > Len(weights) THEN 0 ELSE Max(0, weights[i]) + SumWeights(weights, i + 1)

\* a draw without the uniform fallback for a zero total
weightedRandomIndexNoFallback(weights, twiceR, u) ==
  WeightedLoop(weights, 1, twiceR)

\* weightedRandomIndex(weights)
weightedRandomIndex(weights, twiceR, u) ==
  IF SumWeights(weights, 1) <= 0 THEN u ELSE WeightedLoop(weights, 1, twiceR)

\* a scan that keeps the last option at or over the threshold
HardScanTieLast(decisionsArr, counts, hardTh, i, hardCandidateIndex, highestPity) ==
  LET hit == {j \in 1..Len(decisionsArr) : CountOf(counts, decisionsArr[j]) >= hardTh}
  IN IF hit = {} THEN -1 ELSE (CHOOSE j \in hit : \A k \in hit : k <= j) - 1

\* the loop of pickWithPity that tracks hardCandidateIndex / highestPity
RECURSIVE HardScan(_, _, _, _, _, _)
HardScan(decisionsArr, counts, hardTh, i, hardCandidateIndex, highestPity) ==
  IF i > Len(decisionsArr) THEN hardCandidateIndex
  ELSE LET pity == CountOf(counts, decisionsArr[i])
       IN IF pity >= hardTh /\ pity > highestPity
          THEN HardScan(decisionsArr, counts, hardTh, i + 1, i - 1, pity)
          ELSE HardScan(decisionsArr, counts, hardTh, i + 1,
                        hardCandidateIndex, highestPity)

\* a selection without the hard guarantee
NoHardCandidate(decisionsArr, counts, hardTh) == -1

\* a hard candidate that is the first option at or over the threshold
HardCandidateFirstOver(decisionsArr, counts, hardTh) ==
  LET hit == {j \in 1..Len(decisionsArr) : CountOf(counts, decisionsArr[j]) >= hardTh}
  IN IF hit = {} THEN -1 ELSE (CHOOSE j \in hit : \A k \in hit : j <= k) - 1

\* hardCandidateIndex after the loop, -1 when no option reached the threshold
HardCandidate(decisionsArr, counts, hardTh) ==
  HardScan(decisionsArr, counts, hardTh, 1, -1, -1)

\* soft weights that grow without the cap
WeightsUncapped(decisionsArr, counts, softInc, cap) ==
  [i \in 1..Len(decisionsArr) |-> 1 + softInc * CountOf(counts, decisionsArr[i])]

\* the weights array built by the loop of pickWithPity
Weights(decisionsArr, counts, softInc, cap) ==
  [i \in 1..Len(decisionsArr) |->
     Min(1 + softInc * CountOf(counts, decisionsArr[i]), 1 * cap)]

\* a selection whose hard-pity winner depends on the draw
pickWithPityDrawn(decisionsArr, pityCountsForScope, pityCfg, twiceR, u) ==
  LET hardTh == OrDefault(pityCfg.hardThreshold, DEFAULT_HARD_THRESHOLD)
      hard == HardCandidate(decisionsArr, pityCountsForScope, hardTh)
      weights == Weights(decisionsArr, pityCountsForScope,
                         OrDefault(pityCfg.softIncrement, DEFAULT_SOFT_INCREMENT),
                         OrDefault(pityCfg.softMultiplierCap, DEFAULT_CAP))
  IN [chosenIndex |-> weightedRandomIndex(weights, twiceR, u),
      method |-> IF hard >= 0 THEN "hard-pity" ELSE "soft-weight"]

pickWithPity(decisionsArr, pityCountsForScope, pityCfg, twiceR, u) ==
  LET softInc == OrDefault(pityCfg.softIncrement, DEFAULT_SOFT_INCREMENT)
      hardTh == OrDefault(pityCfg.hardThreshold, DEFAULT_HARD_THRESHOLD)
      cap == OrDefault(pityCfg.softMultiplierCap, DEFAULT_CAP)
      hard == HardCandidate(decisionsArr, pityCountsForScope, hardTh)
      weights == Weights(decisionsArr, pityCountsForScope, softInc, cap)
  IN IF hard >= 0
     THEN [chosenIndex |-> hard, method |-> "hard-pity"]
     ELSE [chosenIndex |-> weightedRandomIndex(weights, twiceR, u),
           method |-> "soft-weight"]

\* the draws Math.random() can give pickWithPity for this list and config
Draws(decisionsArr, counts, pityCfg) ==
  LET w == Weights(decisionsArr, counts,
                   OrDefault(pityCfg.softIncrement, DEFAULT_SOFT_INCREMENT),
                   OrDefault(pityCfg.softMultiplierCap, DEFAULT_CAP))
  IN 0..Max(0, 2 * SumWeights(w, 1) - 1)

\* ------------------------------------------------------------ pity ledger

\* an update that raises the others but leaves the chosen count as it was
CountsLoopKeepChosen(decisionsArr, chosenIndex, i, counts) ==
  [k \in (DOMAIN counts) \cup Range(decisionsArr) |->
     IF k \in Range(decisionsArr) /\ k # decisionsArr[chosenIndex + 1]
     THEN CountOf(counts, k) + 1 ELSE CountOf(counts, k)]

\* the for-loop of applyPityUpdate over the list positions
RECURSIVE CountsLoop(_, _, _, _)
CountsLoop(decisionsArr, chosenIndex, i, counts) ==
  IF i > Len(decisionsArr) THEN counts
  ELSE LET key == decisionsArr[i]
       IN CountsLoop(decisionsArr, chosenIndex, i + 1,
            IF i - 1 = chosenIndex THEN SetKey(counts, key, 0)
            ELSE SetKey(counts, key, CountOf(counts, key) + 1))

\* a reset that fires as soon as one listed key is in the hard-hit set
AllHitAny(cfg, needed, hardHitsSet) ==
  cfg.autoResetWhenAllHardHit /\ needed \cap hardHitsSet # {}

\* the allHit test of applyPityUpdate, under cfg.autoResetWhenAllHardHit
AllHit(cfg, needed, hardHitsSet) ==
  cfg.autoResetWhenAllHardHit /\ needed \subseteq hardHitsSet

\* an update that rebuilds the scope's counts from the listed keys alone
applyPityUpdateRebuilt(scopeKey, decisionsArr, chosenIndex, method, pAll, hAll, cfg) ==
  LET counts == CountsLoop(decisionsArr, chosenIndex, 1, ScopeCounts(pAll, scopeKey))
      hardHitsSet == IF method = "hard-pity"
                     THEN ScopeHits(hAll, scopeKey) \cup {decisionsArr[chosenIndex + 1]}
                     ELSE ScopeHits(hAll, scopeKey)
      needed == Range(decisionsArr)
      allHit == AllHit(cfg, needed, hardHitsSet)
  IN IF allHit
     THEN [pityAll |-> SetKey(pAll, scopeKey, [k \in needed |-> 0]),
           hardHitsAll |-> SetKey(hAll, scopeKey, {}),
           setHard |-> TRUE]
     ELSE [pityAll |-> SetKey(pAll, scopeKey, [k \in needed |-> counts[k]]),
           hardHitsAll |-> IF method = "hard-pity"
                           THEN SetKey(hAll, scopeKey, hardHitsSet) ELSE hAll,
           setHard |-> method = "hard-pity"]

\* applyPityUpdate, run against the render whose pityAll / pityHardHitsAll /
\* pitySettings are given.  setHard tells whether setPityHardHitsAll was called.
applyPityUpdate(scopeKey, decisionsArr, chosenIndex, method, pAll, hAll, cfg) ==
  LET counts == CountsLoop(decisionsArr, chosenIndex, 1, ScopeCounts(pAll, scopeKey))
      hardHitsSet == IF method = "hard-pity"
                     THEN ScopeHits(hAll, scopeKey) \cup {decisionsArr[chosenIndex + 1]}
                     ELSE ScopeHits(hAll, scopeKey)
      needed == Range(decisionsArr)
      allHit == AllHit(cfg, needed, hardHitsSet)
  IN IF allHit
     THEN [pityAll |-> SetKey(pAll, scopeKey, [k \in needed |-> 0]),
           hardHitsAll |-> SetKey(hAll, scopeKey, {}),
           setHard |-> TRUE]
     ELSE [pityAll |-> SetKey(pAll, scopeKey, counts),
           hardHitsAll |-> IF method = "hard-pity"
                           THEN SetKey(hAll, scopeKey, hardHitsSet) ELSE hAll,
           setHard |-> method = "hard-pity"]

\* ------------------------------------------------------------------ state
VARIABLES
  decisions,           \* useState: the option list
  activeIndex,         \* useState: the cursor, -1 when none
  isRunning,           \* useState
  presets,             \* useState: preset id -> decisions snapshot
  historyEntries,      \* useState: newest first
  diceSettings,        \* useState: the dice table
  pityAll,             \* useState: scope -> option key -> miss-count
  pityHardHitsAll,     \* useState: scope -> set of option keys
  pitySettings,        \* useState: the pity config
  pityScopeChoice,     \* useState: "global" | "preset"
  currentPresetId,     \* useState: preset id or NULL
  diceRoll,            \* useState: rolled face, 0 when null
  diceDurationSec,     \* useState: rolled duration, 0 when null
  progress,            \* useState: 0..100
  spinTimeoutRef,      \* a tick timeout is scheduled
  progressIntervalRef, \* the progress interval is scheduled
  spinRunningRef,      \* useRef: the "still running" flag
  elapsed,             \* Date.now() - startTimeRef.current, in ms
  spin,                \* what the callbacks of the spin close over
  mounted,             \* the component is mounted
  machine,             \* Idle / Running / Completed / Stopped
  storedHistory,       \* localStorage history_v1, as the array it parses to
  writable,            \* localStorage.setItem succeeds (no quota error)
  records,             \* localStorage at construction: key -> what is stored
  loaded,              \* key -> the value its reader returned, once read
  historyPage,         \* useState: the page of the history view
  spinEntries,         \* history entries appended by the last started spin
  spinUpdates,         \* ledger updates applied by the last started spin
  lastOp               \* the operation that produced this state

vars == << decisions, activeIndex, isRunning, presets, historyEntries,
           diceSettings, pityAll, pityHardHitsAll, pitySettings,
           pityScopeChoice, currentPresetId, diceRoll, diceDurationSec,
           progress, spinTimeoutRef, progressIntervalRef, spinRunningRef,
           elapsed, spin, mounted, storedHistory, writable, records,
           loaded, historyPage, machine,
           spinEntries, spinUpdates, lastOp >>

listVars == << decisions, presets, diceSettings >>
ledgerVars == << pityAll, pityHardHitsAll >>
scopeVars == << pityScopeChoice, currentPresetId >>
diceVars == << diceRoll, diceDurationSec >>
timerVars == << spinTimeoutRef, progressIntervalRef, spinRunningRef, elapsed, spin >>
ghostVars == << machine, spinEntries, spinUpdates >>
loadVars == << records, loaded >>

NULL == "null"

\* a dice table saved by an earlier session
StoredDice == << [num |-> 1, sec |-> 1], [num |-> 2, sec |-> 2] >>

HardThresholds == {1, 2}

\* the pity configs an earlier session or the settings modal can have saved
Configs ==
  [enabled : BOOLEAN, softIncrement : {1}, hardThreshold : HardThresholds,
   softMultiplierCap : {2}, autoResetWhenAllHardHit : BOOLEAN,
   lastSelectedScope : {"none", "global", "preset"}]

\* the presets an earlier session can have saved
StoredPresets == {[id \in PresetIds |-> << "B" >>]}

NoSpin ==
  [decisions |-> << >>, pityAll |-> EmptyMap, hardHits |-> EmptyMap,
   cfg |-> DEFAULT_PITY_SETTINGS, scope |-> "global", finalIndex |-> 0,
   method |-> "none", roll |-> 0, sec |-> 0, desiredMs |-> MIN_DESIRED_MS,
   totalTicks |-> MIN_TICKS, tick |-> 0]

\* resolveScopeKey(scopeChoice)
resolveScopeKey(scopeChoice, presetId) ==
  IF scopeChoice = "preset" /\ presetId # NULL THEN presetId ELSE "global"

\* addHistoryEntry(entry) with an object entry whose decision is truthy
addHistoryEntry(h, decision, dice, duration, method) ==
  << [decision |-> decision, dice |-> dice, duration |-> duration,
      method |-> method] >> \o h

\* ------------------------------------------------------- reading storage

\* the localStorage keys read at construction
Keys == {"decisions_v1", "presets_v1", "history_v1", "dice_v1", "pity_v1",
         "pity_hardhits_v1", "pity_settings_v1"}

ArrayKeys == {"decisions_v1", "presets_v1", "history_v1", "dice_v1"}

\* what a key can hold: nothing, text that is not JSON, or JSON that parses to
\* null, to a number, to an object, to an array, or (for the dice) to an array
\* whose elements are not numeric rows
Stored == {"absent", "unparsable", "null", "number", "object", "array",
           "otherarray"}

NothingStored == [k \in Keys |-> "absent"]

Unread == [type |-> "unread", origin |-> "none"]

\* the [] / {} / DEFAULT_DICE / DEFAULT_PITY_SETTINGS passed as fallback
Fallback(type) == [type |-> type, origin |-> "default"]

\* readFromStorage(key, fallback): the fallback for a missing item and for a
\* JSON.parse that throws, otherwise the parsed value whatever its type
readFromStorage(raw, fallback) ==
  IF raw \in {"absent", "unparsable"} THEN fallback
  ELSE [type |-> IF raw = "otherarray" THEN "array" ELSE raw, origin |-> "stored"]

\* `value || []` of the useState initialisers: null is falsy
OrEmpty(v) == IF v.type = "null" THEN Fallback("array") ELSE v

\* readDecisions, readPresets, readHistory with the || [] of lines 97-109
readList(raw) == OrEmpty(readFromStorage(raw, Fallback("array")))

\* readDice: the stored array when every element is a numeric row
readDice(raw) ==
  LET d == readFromStorage(raw, Fallback("null"))
  IN IF raw = "array" THEN d ELSE Fallback("array")

\* readPityAll, readPityHardHitsAll, readPitySettings
readMap(raw) == readFromStorage(raw, Fallback("object"))

\* the reader of each key
Reader(k, raw) ==
  IF k = "dice_v1" THEN readDice(raw)
  ELSE IF k \in ArrayKeys THEN readList(raw)
  ELSE readMap(raw)

\* a useState initialiser reads its key
readKey(k) ==
  /\ loaded[k] = Unread
  /\ loaded' = [loaded EXCEPT ![k] = Reader(k, records[k])]
  /\ UNCHANGED << decisions, activeIndex, isRunning, presets, historyEntries,
                  diceSettings, ledgerVars, pitySettings, scopeVars, diceVars,
                  progress, timerVars, mounted, storedHistory, writable,
                  records, historyPage, ghostVars, lastOp >>

\* the autosave effect of historyEntries: it runs when the log changed, and
\* saveToStorage swallows a write that fails
Persist ==
  /\ writable' = writable
  /\ storedHistory' = IF writable /\ historyEntries' # historyEntries
                      THEN historyEntries' ELSE storedHistory

\* the clock readings a callback can see after the reading `e`
ClockAfter(e, desiredMs) ==
  {e, Max(e, Min(e + desiredMs \div TimeSteps, desiredMs))}

\* the readings of the progress interval, which can also fire late: past the
\* duration the tick callback only tests `elapsed < desiredMs`, the interval
\* callback publishes the reading
ClockLate(e, desiredMs) ==
  ClockAfter(e, desiredMs) \cup {desiredMs + desiredMs \div TimeSteps}

\* the state after construction, for the persisted lists / presets / configs given
InitStored(lists, storedPresets, cfgs, ledgers, hardHits, tables, writables, stores, histories) ==
  /\ decisions \in lists
  /\ activeIndex = -1
  /\ isRunning = FALSE
  /\ presets \in storedPresets
  /\ historyEntries \in histories
  /\ diceSettings \in tables
  /\ pityAll \in ledgers
  /\ pityHardHitsAll \in hardHits
  /\ pitySettings \in cfgs
  /\ pityScopeChoice = "global"
  /\ currentPresetId = NULL
  /\ diceRoll = 0
  /\ diceDurationSec = 0
  /\ progress = 0
  /\ spinTimeoutRef = FALSE
  /\ progressIntervalRef = FALSE
  /\ spinRunningRef = FALSE
  /\ elapsed = 0
  /\ spin = NoSpin
  /\ mounted = TRUE
  /\ storedHistory = historyEntries
  /\ historyPage = 1
  /\ writable \in writables
  /\ records \in stores
  /\ loaded = [k \in Keys |-> Unread]
  /\ machine = "Idle"
  /\ spinEntries = 0
  /\ spinUpdates = 0
  /\ lastOp = "init"

\* the state after construction when no history is stored
InitFrom(lists, storedPresets, cfgs, ledgers, hardHits, tables, writables, stores) ==
  InitStored(lists, storedPresets, cfgs, ledgers, hardHits, tables, writables,
             stores, {<< >>})

\* a first session: no ledger stored, the mount effect adds the global scope
InitWith(lists, storedPresets, cfgs) ==
  InitFrom(lists, storedPresets, cfgs, {[s \in {"global"} |-> EmptyMap]},
           {EmptyMap}, {StoredDice}, {TRUE}, {NothingStored})

\* persisted option lists the session starts from
StoredLists == {<< >>, << "A" >>, << "A", "B" >>, << "A", "A" >>}

StoredConfigs == {c \in Configs : c.lastSelectedScope = "none"}

\* the configs a session starts from: every enabled one, and one disabled
SessionConfigs ==
  {c \in StoredConfigs :
     c.enabled \/ (c.hardThreshold = 1 /\ ~c.autoResetWhenAllHardHit)}

Init == InitWith(StoredLists, {EmptyMap}, SessionConfigs)

\* a session that starts with a saved preset
InitPreset ==
  InitWith({<< "A", "B" >>}, StoredPresets,
           {c \in StoredConfigs :
              c.enabled /\ c.hardThreshold = 1 /\ ~c.autoResetWhenAllHardHit})

\* ------------------------------------------------------------ list editing

addDecision(t) ==
  /\ mounted /\ ~isRunning
  /\ Len(decisions) < MaxLen
  /\ decisions' = Append(decisions, t)
  /\ activeIndex' = IF activeIndex = -1 THEN 0 ELSE activeIndex
  /\ lastOp' = "other"
  /\ UNCHANGED << isRunning, presets, historyEntries, diceSettings, ledgerVars,
                  pitySettings, scopeVars, diceVars, progress, timerVars,
                  mounted, ghostVars >>
  /\ Persist
  /\ UNCHANGED << loadVars, historyPage >>

removeDecision(idx) ==
  /\ mounted /\ ~isRunning
  /\ idx \in 0..(Len(decisions) - 1)
  /\ decisions' = [i \in 1..(Len(decisions) - 1) |->
                     IF i - 1 < idx THEN decisions[i] ELSE decisions[i + 1]]
  /\ activeIndex' = IF activeIndex = idx THEN -1
                    ELSE IF activeIndex > idx THEN activeIndex - 1
                    ELSE activeIndex
  /\ lastOp' = "other"
  /\ UNCHANGED << isRunning, presets, historyEntries, diceSettings, ledgerVars,
                  pitySettings, scopeVars, diceVars, progress, timerVars,
                  mounted, ghostVars >>
  /\ Persist
  /\ UNCHANGED << loadVars, historyPage >>

clearAll ==
  /\ mounted /\ ~isRunning
  /\ Len(decisions) > 0
  /\ decisions' = << >>
  /\ activeIndex' = -1
  /\ lastOp' = "other"
  /\ UNCHANGED << isRunning, presets, historyEntries, diceSettings, ledgerVars,
                  pitySettings, scopeVars, diceVars, progress, timerVars,
                  mounted, ghostVars >>
  /\ Persist
  /\ UNCHANGED << loadVars, historyPage >>

\* button "Restart From Start", rendered in place of Stop when not running
restartFromStart ==
  /\ mounted /\ ~isRunning
  /\ Len(decisions) > 0
  /\ activeIndex' = 0
  /\ lastOp' = "other"
  /\ UNCHANGED << decisions, isRunning, presets, historyEntries, diceSettings,
                  ledgerVars, pitySettings, scopeVars, diceVars, progress,
                  timerVars, mounted, ghostVars >>
  /\ Persist
  /\ UNCHANGED << loadVars, historyPage >>

\* ----------------------------------------------------------------- presets

savePreset(id) ==
  /\ mounted
  /\ Len(decisions) > 0
  /\ presets' = SetKey(presets, id, decisions)
  /\ lastOp' = "other"
  /\ UNCHANGED << decisions, activeIndex, isRunning, historyEntries,
                  diceSettings, ledgerVars, pitySettings, scopeVars, diceVars,
                  progress, timerVars, mounted, ghostVars >>
  /\ Persist
  /\ UNCHANGED << loadVars, historyPage >>

\* a scope choice that follows the preset whether or not it has an entry
PresetScopeAlways(pAll, id) == "preset"

\* the scope choice applyPreset makes: the preset's own scope only when the
\* ledger already has an entry for it
PresetScopeChoice(pAll, id) == IF id \in DOMAIN pAll THEN "preset" ELSE "global"

applyPreset(id) ==
  /\ mounted
  /\ id \in DOMAIN presets
  /\ decisions' = presets[id]
  /\ activeIndex' = IF Len(presets[id]) > 0 THEN 0 ELSE -1
  /\ currentPresetId' = id
  /\ pityScopeChoice' = PresetScopeChoice(pityAll, id)
  /\ lastOp' = "other"
  /\ UNCHANGED << isRunning, presets, historyEntries, diceSettings, ledgerVars,
                  pitySettings, diceVars, progress, timerVars, mounted,
                  ghostVars >>
  /\ Persist
  /\ UNCHANGED << loadVars, historyPage >>

deletePreset(id) ==
  /\ mounted
  /\ id \in DOMAIN presets
  /\ presets' = DelKey(presets, id)
  /\ pityAll' = DelKey(pityAll, id)
  /\ pityHardHitsAll' = DelKey(pityHardHitsAll, id)
  /\ currentPresetId' = IF currentPresetId = id THEN NULL ELSE currentPresetId
  /\ lastOp' = "other"
  /\ UNCHANGED << decisions, activeIndex, isRunning, historyEntries,
                  diceSettings, pitySettings, pityScopeChoice, diceVars,
                  progress, timerVars, mounted, ghostVars >>
  /\ Persist
  /\ UNCHANGED << loadVars, historyPage >>

\* ----------------------------------------------------------------- history

clearHistory ==
  /\ mounted
  /\ historyEntries' = << >>
  /\ lastOp' = "other"
  /\ UNCHANGED << decisions, activeIndex, isRunning, presets, diceSettings,
                  ledgerVars, pitySettings, scopeVars, diceVars, progress,
                  timerVars, mounted, ghostVars >>
  /\ storedHistory' = << >>
  /\ writable' = writable
  /\ UNCHANGED << loadVars, historyPage >>

\* openHistoryModal: the log shown is the one read back from storage
openHistoryModal ==
  /\ mounted
  /\ historyEntries' = storedHistory
  /\ lastOp' = "history"
  /\ UNCHANGED << decisions, activeIndex, isRunning, presets, diceSettings,
                  ledgerVars, pitySettings, scopeVars, diceVars, progress,
                  timerVars, mounted, ghostVars >>
  /\ Persist
  /\ historyPage' = 1
  /\ UNCHANGED loadVars

\* Math.max(1, Math.ceil(historyEntries.length / HISTORY_PAGE_SIZE))
historyTotalPages(h) ==
  Max(1, (Len(h) + HISTORY_PAGE_SIZE - 1) \div HISTORY_PAGE_SIZE)

\* button "Prev" of the history view, enabled past the first page
goHistoryPrev ==
  /\ mounted
  /\ ~(historyPage <= 1)
  /\ historyPage' = Max(1, historyPage - 1)
  /\ lastOp' = "other"
  /\ UNCHANGED << decisions, activeIndex, isRunning, presets, historyEntries,
                  diceSettings, ledgerVars, pitySettings, scopeVars, diceVars,
                  progress, timerVars, mounted, ghostVars >>
  /\ Persist
  /\ UNCHANGED loadVars

\* button "Next" of the history view, enabled before the last page
goHistoryNext ==
  /\ mounted
  /\ ~(historyPage >= historyTotalPages(historyEntries))
  /\ historyPage' = Min(historyTotalPages(historyEntries), historyPage + 1)
  /\ lastOp' = "other"
  /\ UNCHANGED << decisions, activeIndex, isRunning, presets, historyEntries,
                  diceSettings, ledgerVars, pitySettings, scopeVars, diceVars,
                  progress, timerVars, mounted, ghostVars >>
  /\ Persist
  /\ UNCHANGED loadVars

\* ---------------------------------------------------------------- settings

\* a validation that does not look for repeated face numbers
validateDiceArrayNoDuplicateCheck(arr) ==
  /\ \A i \in DOMAIN arr : arr[i].num >= 1 /\ arr[i].num <= 50
  /\ \A i \in DOMAIN arr : arr[i].sec > 0 /\ arr[i].sec <= 60

\* validateDiceArray(arr) returns no error
validateDiceArray(arr) ==
  /\ \A i \in DOMAIN arr : arr[i].num >= 1 /\ arr[i].num <= 50
  /\ \A i, j \in DOMAIN arr : i # j => arr[i].num # arr[j].num
  /\ \A i \in DOMAIN arr : arr[i].sec > 0 /\ arr[i].sec <= 60

\* arr.sort((a, b) => a.num - b.num) of rows with distinct numbers
RECURSIVE SortByNum(_)
SortByNum(arr) ==
  IF Len(arr) = 0 THEN << >>
  ELSE LET m == CHOOSE i \in DOMAIN arr : \A j \in DOMAIN arr : arr[i].num <= arr[j].num
           rest == [k \in 1..(Len(arr) - 1) |-> IF k < m THEN arr[k] ELSE arr[k + 1]]
       IN << arr[m] >> \o SortByNum(rest)

\* dice rows typed into the settings modal: valid tables in and out of face
\* order, a repeated face, a face and a duration out of range, and tables of
\* fewer than 2 rows
DiceEdits ==
  { StoredDice,
    << [num |-> 2, sec |-> 2], [num |-> 1, sec |-> 1] >>,
    << [num |-> 2, sec |-> 1], [num |-> 1, sec |-> 2] >>,
    << [num |-> 1, sec |-> 1], [num |-> 1, sec |-> 2] >>,
    << [num |-> 0, sec |-> 1], [num |-> 1, sec |-> 1] >>,
    << [num |-> 1, sec |-> 1], [num |-> 51, sec |-> 1] >>,
    << [num |-> 1, sec |-> 0], [num |-> 2, sec |-> 1] >>,
    << [num |-> 1, sec |-> 1], [num |-> 2, sec |-> 61] >>,
    << [num |-> 2, sec |-> 1] >>,
    << [num |-> 1, sec |-> 0] >>,
    << >> }

\* the pity fields the settings modal can hold when Save is clicked
PityEdits ==
  [enabled : BOOLEAN, softIncrement : {1}, hardThreshold : HardThresholds,
   softMultiplierCap : {2}, autoResetWhenAllHardHit : BOOLEAN]
  \cup [enabled : {TRUE}, softIncrement : {0}, hardThreshold : {1},
        softMultiplierCap : {2}, autoResetWhenAllHardHit : {FALSE}]
  \cup [enabled : {TRUE}, softIncrement : {1}, hardThreshold : {0},
        softMultiplierCap : {2}, autoResetWhenAllHardHit : {FALSE}]
  \cup [enabled : {TRUE}, softIncrement : {1}, hardThreshold : {1},
        softMultiplierCap : {0}, autoResetWhenAllHardHit : {FALSE}]

openSettingsModal ==
  /\ mounted
  /\ pityScopeChoice' =
       IF pitySettings.lastSelectedScope = "preset"
       THEN (IF currentPresetId # NULL THEN "preset" ELSE "global")
       ELSE IF pitySettings.lastSelectedScope = "global" THEN "global"
       ELSE IF currentPresetId # NULL /\ currentPresetId \in DOMAIN pityAll
            THEN "preset" ELSE "global"
  /\ lastOp' = "other"
  /\ UNCHANGED << decisions, activeIndex, isRunning, presets, historyEntries,
                  diceSettings, ledgerVars, pitySettings, currentPresetId,
                  diceVars, progress, timerVars, mounted, ghostVars >>
  /\ Persist
  /\ UNCHANGED << loadVars, historyPage >>

\* the scope radio buttons of the settings modal
setPityScopeChoice(c) ==
  /\ mounted
  /\ c = "preset" => currentPresetId # NULL
  /\ pityScopeChoice' = c
  /\ lastOp' = "other"
  /\ UNCHANGED << decisions, activeIndex, isRunning, presets, historyEntries,
                  diceSettings, ledgerVars, pitySettings, currentPresetId,
                  diceVars, progress, timerVars, mounted, ghostVars >>
  /\ Persist
  /\ UNCHANGED << loadVars, historyPage >>

\* a reset that zeroes the counts but leaves the hard-hit records
ResetScopeKeepHits(pAll, hAll, scopeKey, list) ==
  [pityAll |-> SetKey(pAll, scopeKey, [k \in Range(list) |-> 0]),
   hardHitsAll |-> hAll]

\* the ledger and hard-hit records resetPityForScope sets
ResetScope(pAll, hAll, scopeKey, list) ==
  [pityAll |-> SetKey(pAll, scopeKey, [k \in Range(list) |-> 0]),
   hardHitsAll |-> SetKey(hAll, scopeKey, {})]

\* resetPityForScope(scopeKey)
resetPityForScope(scopeKey) ==
  LET r == ResetScope(pityAll, pityHardHitsAll, scopeKey, decisions)
  IN /\ pityAll' = r.pityAll
     /\ pityHardHitsAll' = r.hardHitsAll

\* button "Reset Pity Counters (scope)"
resetPityScopeButton ==
  /\ mounted
  /\ resetPityForScope(resolveScopeKey(pityScopeChoice, currentPresetId))
  /\ lastOp' = "other"
  /\ UNCHANGED << decisions, activeIndex, isRunning, presets, historyEntries,
                  diceSettings, pitySettings, scopeVars, diceVars, progress,
                  timerVars, mounted, ghostVars >>
  /\ Persist
  /\ UNCHANGED << loadVars, historyPage >>

\* a reset of all counts that leaves the hard-hit records
resetAllKeepsHits ==
  /\ mounted
  /\ pityAll' = EmptyMap
  /\ pityHardHitsAll' = pityHardHitsAll
  /\ lastOp' = "other"
  /\ UNCHANGED << decisions, activeIndex, isRunning, presets, historyEntries,
                  diceSettings, pitySettings, scopeVars, diceVars, progress,
                  timerVars, mounted, ghostVars >>
  /\ Persist
  /\ UNCHANGED << loadVars, historyPage >>

\* button "Reset All Pity"
resetAllPityButton ==
  /\ mounted
  /\ pityAll' = EmptyMap
  /\ pityHardHitsAll' = EmptyMap
  /\ lastOp' = "other"
  /\ UNCHANGED << decisions, activeIndex, isRunning, presets, historyEntries,
                  diceSettings, pitySettings, scopeVars, diceVars, progress,
                  timerVars, mounted, ghostVars >>
  /\ Persist
  /\ UNCHANGED << loadVars, historyPage >>

saveSettingsModal(diceEdit, pityEdit) ==
  /\ mounted
  /\ lastOp' = "other"
  /\ IF /\ validateDiceArray(diceEdit)
        /\ pityEdit.softIncrement > 0
        /\ pityEdit.hardThreshold >= 1
        /\ pityEdit.softMultiplierCap >= 1
     THEN /\ diceSettings' = SortByNum(diceEdit)
          /\ pitySettings' =
               [enabled |-> pityEdit.enabled,
                softIncrement |-> pityEdit.softIncrement,
                hardThreshold |-> pityEdit.hardThreshold,
                softMultiplierCap |-> pityEdit.softMultiplierCap,
                autoResetWhenAllHardHit |-> pityEdit.autoResetWhenAllHardHit,
                lastSelectedScope |-> pityScopeChoice]
          /\ pityScopeChoice' =
               IF pityScopeChoice = "preset" /\ currentPresetId = NULL
               THEN "global" ELSE pityScopeChoice
     ELSE UNCHANGED << diceSettings, pitySettings, pityScopeChoice >>
  /\ UNCHANGED << decisions, activeIndex, isRunning, presets, historyEntries,
                  ledgerVars, currentPresetId, diceVars, progress, timerVars,
                  mounted, ghostVars >>
  /\ Persist
  /\ UNCHANGED << loadVars, historyPage >>

\* ------------------------------------------------------------- spin logic

\* a disabled-pity pick that always takes the first option
pickUniformFirst(decisionsArr, u) == [chosenIndex |-> 0, method |-> "none"]

\* the pick of startDecision with pity disabled: u is
\* Math.floor(Math.random() * decisions.length)
pickUniform(decisionsArr, u) == [chosenIndex |-> u, method |-> "none"]

\* the early returns of startDecision
StartRejectedOnlyEmpty == Len(decisions) = 0

\* a guard that also refuses once a dice roll has been published
StartRejectedAfterFirstSpin == isRunning \/ Len(decisions) = 0 \/ diceRoll # 0

StartRejected == isRunning \/ Len(decisions) = 0

\* startDecision past its guards: roll, pick, arm both timers
startSpin ==
  \E roll \in 0..(Len(diceSettings) - 1) :
    LET face == diceSettings[roll + 1]
        desiredMs == Max(MIN_DESIRED_MS, face.sec * 1000)
        scope == resolveScopeKey(pityScopeChoice, currentPresetId)
        pityCountsForScope == ScopeCounts(pityAll, scope)
        cfg == pitySettings
    IN \E twiceR \in Draws(decisions, pityCountsForScope, cfg),
          u \in 0..(Len(decisions) - 1) :
         LET pickResult ==
               IF cfg.enabled
               THEN pickWithPity(decisions, pityCountsForScope, cfg, twiceR, u)
               ELSE pickUniform(decisions, u)
         IN /\ diceRoll' = face.num
            /\ diceDurationSec' = face.sec
            /\ spinRunningRef' = TRUE
            /\ isRunning' = TRUE
            /\ progress' = 0
            /\ elapsed' = 0
            /\ progressIntervalRef' = TRUE
            /\ spinTimeoutRef' = TRUE
            /\ activeIndex' = IF activeIndex >= 0 /\ activeIndex < Len(decisions)
                              THEN activeIndex ELSE 0
            /\ spin' = [decisions |-> decisions, pityAll |-> pityAll,
                        hardHits |-> pityHardHitsAll, cfg |-> cfg,
                        scope |-> scope,
                        finalIndex |-> pickResult.chosenIndex,
                        method |-> pickResult.method,
                        roll |-> face.num, sec |-> face.sec,
                        desiredMs |-> desiredMs,
                        totalTicks |-> Max(MIN_TICKS,
                           RoundDiv(desiredMs, BASE_DELAY * ESTIMATED_FACTOR)),
                        tick |-> 0]
            /\ machine' = "Running"
            /\ spinEntries' = 0
            /\ spinUpdates' = 0
            /\ UNCHANGED << listVars, historyEntries, ledgerVars, pitySettings,
                            scopeVars, mounted >>

startDecision ==
  /\ mounted
  /\ lastOp' = "start"
  /\ IF StartRejected
     THEN UNCHANGED << decisions, activeIndex, isRunning, presets,
                       historyEntries, diceSettings, ledgerVars, pitySettings,
                       scopeVars, diceVars, progress, timerVars, mounted,
                       ghostVars >>
     ELSE startSpin
  /\ Persist
  /\ UNCHANGED << loadVars, historyPage >>

\* lines 522-525 of stopSpin: both timers cleared, flag cleared
stopKeepsTimers ==
  /\ spinRunningRef' = FALSE
  /\ UNCHANGED << spinTimeoutRef, progressIntervalRef, elapsed, spin >>

stopCancels ==
  /\ spinTimeoutRef' = FALSE
  /\ progressIntervalRef' = FALSE
  /\ spinRunningRef' = FALSE
  /\ elapsed' = 0
  /\ spin' = NoSpin

\* decisions[activeIndex] is a real option (truthy)
OnRealOption(arr, idx) == idx >= 0 /\ idx < Len(arr)

\* a stop that jumps to the winner picked at start
StopIndexWinner == IF spinRunningRef THEN spin.finalIndex ELSE activeIndex

\* the cursor after stopSpin: it makes no setActiveIndex call
StopIndex == activeIndex

stopSpin ==
  /\ mounted
  /\ lastOp' = "stop"
  /\ stopCancels
  /\ isRunning' = FALSE
  /\ progress' = 0
  /\ IF spinRunningRef /\ OnRealOption(decisions, activeIndex)
     THEN /\ historyEntries' = addHistoryEntry(historyEntries,
                 decisions[activeIndex + 1], diceRoll, diceDurationSec,
                 "manual-stop")
          /\ spinEntries' = spinEntries + 1
          /\ IF pitySettings.enabled
             THEN LET upd == applyPityUpdate(
                               resolveScopeKey(pityScopeChoice, currentPresetId),
                               decisions, activeIndex, "manual-stop",
                               pityAll, pityHardHitsAll, pitySettings)
                  IN /\ pityAll' = upd.pityAll
                     /\ pityHardHitsAll' = IF upd.setHard THEN upd.hardHitsAll
                                           ELSE pityHardHitsAll
                     /\ spinUpdates' = spinUpdates + 1
             ELSE UNCHANGED << ledgerVars, spinUpdates >>
     ELSE UNCHANGED << historyEntries, ledgerVars, spinEntries, spinUpdates >>
  /\ machine' = IF spinRunningRef THEN "Stopped" ELSE machine
  /\ activeIndex' = StopIndex
  /\ UNCHANGED << listVars, pitySettings, scopeVars, diceVars, mounted >>
  /\ Persist
  /\ UNCHANGED << loadVars, historyPage >>

\* the index the completing tick commits (finalChosenIndex of the closure)
CommitCursor == activeIndex

CommitIndex == spin.finalIndex

\* a tick counter that is never advanced
NextTickStuck == spin.tick

\* tick += 1 in the timeout callback
NextTick == spin.tick + 1

\* the timeout callback scheduled by step()
tickCallback ==
  /\ spinTimeoutRef
  /\ lastOp' = "tick"
  /\ \E now \in ClockAfter(elapsed, spin.desiredMs) :
       LET tick == NextTick
           moved == (activeIndex + 1) % Len(spin.decisions)
       IN IF tick <= spin.totalTicks /\ spinRunningRef /\ now < spin.desiredMs
          THEN /\ activeIndex' = moved
               /\ spin' = [spin EXCEPT !.tick = tick]
               /\ elapsed' = now
               /\ UNCHANGED << spinTimeoutRef, progressIntervalRef,
                               spinRunningRef, isRunning, progress,
                               historyEntries, ledgerVars, ghostVars >>
          ELSE /\ IF spinRunningRef
                  THEN /\ activeIndex' = CommitIndex
                       /\ historyEntries' = addHistoryEntry(historyEntries,
                              spin.decisions[CommitIndex + 1], spin.roll,
                              spin.sec, spin.method)
                       /\ spinEntries' = spinEntries + 1
                       /\ machine' = "Completed"
                       /\ IF spin.cfg.enabled
                          THEN LET upd == applyPityUpdate(spin.scope,
                                            spin.decisions, CommitIndex,
                                            spin.method, spin.pityAll,
                                            spin.hardHits, spin.cfg)
                               IN /\ pityAll' = upd.pityAll
                                  /\ pityHardHitsAll' =
                                       IF upd.setHard THEN upd.hardHitsAll
                                       ELSE pityHardHitsAll
                                  /\ spinUpdates' = spinUpdates + 1
                          ELSE UNCHANGED << ledgerVars, spinUpdates >>
                  ELSE /\ activeIndex' = moved
                       /\ UNCHANGED << historyEntries, ledgerVars, ghostVars >>
               /\ spinTimeoutRef' = FALSE
               /\ progressIntervalRef' = FALSE
               /\ spinRunningRef' = FALSE
               /\ isRunning' = FALSE
               /\ progress' = 100
               /\ elapsed' = 0
               /\ spin' = NoSpin
  /\ UNCHANGED << listVars, pitySettings, scopeVars, diceVars, mounted >>
  /\ Persist
  /\ UNCHANGED << loadVars, historyPage >>

\* a percentage that is not clamped at 100
PctUnclamped(now, desiredMs) == RoundDiv(now * 100, desiredMs)

\* pct = Math.min(100, Math.round((elapsed / desiredMs) * 100))
Pct(now, desiredMs) == Min(100, RoundDiv(now * 100, desiredMs))

\* the setInterval callback of startDecision
progressCallback ==
  /\ progressIntervalRef
  /\ lastOp' = "progress"
  /\ \E now \in ClockLate(elapsed, spin.desiredMs) :
       /\ elapsed' = now
       /\ progress' = Pct(now, spin.desiredMs)
       /\ progressIntervalRef' = (now < spin.desiredMs)
  /\ UNCHANGED << decisions, activeIndex, isRunning, presets, historyEntries,
                  diceSettings, ledgerVars, pitySettings, scopeVars, diceVars,
                  spinTimeoutRef, spinRunningRef, spin, mounted, ghostVars >>
  /\ Persist
  /\ UNCHANGED << loadVars, historyPage >>

\* a teardown that leaves the progress interval scheduled
unmountLeavesInterval ==
  /\ mounted
  /\ mounted' = FALSE
  /\ spinTimeoutRef' = FALSE
  /\ progressIntervalRef' = progressIntervalRef
  /\ spinRunningRef' = FALSE
  /\ elapsed' = 0
  /\ spin' = NoSpin
  /\ lastOp' = "other"
  /\ UNCHANGED << decisions, activeIndex, isRunning, presets, historyEntries,
                  diceSettings, ledgerVars, pitySettings, scopeVars, diceVars,
                  progress, ghostVars >>
  /\ Persist
  /\ UNCHANGED << loadVars, historyPage >>

\* the cleanup of the mount effect (component teardown)
unmount ==
  /\ mounted
  /\ mounted' = FALSE
  /\ spinTimeoutRef' = FALSE
  /\ progressIntervalRef' = FALSE
  /\ spinRunningRef' = FALSE
  /\ elapsed' = 0
  /\ spin' = NoSpin
  /\ lastOp' = "other"
  /\ UNCHANGED << decisions, activeIndex, isRunning, presets, historyEntries,
                  diceSettings, ledgerVars, pitySettings, scopeVars, diceVars,
                  progress, ghostVars >>
  /\ Persist
  /\ UNCHANGED << loadVars, historyPage >>

\* ---------------------------------------------------------- specifications

\* the counters and the history stay inside the model's bounds
WithinBounds ==
  /\ Len(historyEntries) < MaxHist
  /\ \A s \in DOMAIN pityAll : \A k \in DOMAIN pityAll[s] : pityAll[s][k] < MaxCount

Next ==
  \/ restartFromStart
  \/ clearHistory
  \/ resetPityScopeButton
  \/ resetAllPityButton
  \/ (StartRejected \/ WithinBounds) /\ startDecision
  \/ stopSpin
  \/ tickCallback
  \/ progressCallback
  \/ unmount

Spec == Init /\ [][Next]_vars

NextPreset ==
  \/ \E id \in PresetIds : applyPreset(id)
  \/ \E id \in PresetIds : deletePreset(id)
  \/ \E c \in {"global", "preset"} : setPityScopeChoice(c)
  \/ clearHistory
  \/ (StartRejected \/ WithinBounds) /\ startDecision
  \/ stopSpin
  \/ tickCallback
  \/ progressCallback

SpecPreset == InitPreset /\ [][NextPreset]_vars

\* the ledgers and hard-hit records an earlier session can have stored
StoredCounts == [Options -> 0..MaxCount] \cup {EmptyMap}

StoredLedgers ==
  {[s \in {"global"} |-> c] : c \in StoredCounts}
    \cup {[s \in Scopes |-> IF s = "global" THEN c[1] ELSE c[2]] :
            c \in StoredCounts \X StoredCounts}

StoredHardHits ==
  { EmptyMap, [s \in {"global"} |-> {"A"}],
    [s \in Scopes |-> IF s = "global" THEN {"A"} ELSE {"B"}] }

\* ledger maintenance without spins: presets, scope choice and the resets
InitReset ==
  InitFrom({<< "A", "B" >>, << "A" >>}, StoredPresets,
           {c \in StoredConfigs :
              c.enabled /\ c.hardThreshold = 1 /\ ~c.autoResetWhenAllHardHit},
           StoredLedgers, StoredHardHits, {StoredDice}, {TRUE}, {NothingStored})

NextReset ==
  \/ \E id \in PresetIds : applyPreset(id)
  \/ \E c \in {"global", "preset"} : setPityScopeChoice(c)
  \/ resetPityScopeButton
  \/ resetAllPityButton

SpecReset == InitReset /\ [][NextReset]_vars

\* spins over a stored ledger, with presets, scope choice and the resets
SpinLedgers ==
  {l \in StoredLedgers :
     \A s \in DOMAIN l :
       l[s] \in {EmptyMap,
                 [k \in Options |-> IF (k = "A") = (s = "global") THEN 1 ELSE 0]}
       /\ (s # "global" => l[s] # EmptyMap /\ l["global"] # EmptyMap)}

SpinHardHits == {h \in StoredHardHits : DOMAIN h \in {{}, Scopes}}

InitLedger ==
  InitFrom({<< "A", "B" >>}, StoredPresets,
           {c \in StoredConfigs :
              c.enabled /\ c.hardThreshold = 1 /\ ~c.autoResetWhenAllHardHit},
           SpinLedgers, SpinHardHits, {StoredDice}, {TRUE}, {NothingStored})

NextLedger ==
  \/ \E id \in PresetIds : applyPreset(id)
  \/ \E c \in {"global", "preset"} : setPityScopeChoice(c)
  \/ resetPityScopeButton
  \/ resetAllPityButton
  \/ (StartRejected \/ WithinBounds) /\ startDecision
  \/ stopSpin
  \/ tickCallback
  \/ progressCallback

SpecLedger == InitLedger /\ [][NextLedger]_vars

\* the dice tables readDice returns: the default for an absent or malformed
\* record, and every stored array of numeric rows as it is
DiceRecords ==
  { DEFAULT_DICE, StoredDice, << >>, << [num |-> 1, sec |-> 1] >>,
    << [num |-> 1, sec |-> 1], [num |-> 1, sec |-> 2] >> }

\* the rows the editor can hold at Save when it was opened on a table: rows
\* are added and edited freely, and deleted only while more than 2 remain
ModalRows(table) ==
  {arr \in DiceEdits \cup {table} : Len(arr) >= Min(Len(table), 2)}

\* presets and the settings modal over any stored dice record
InitSettings ==
  InitFrom({<< "A", "B" >>}, StoredPresets,
           {c \in StoredConfigs :
              c.enabled /\ c.hardThreshold = 1 /\ ~c.autoResetWhenAllHardHit},
           {[s \in {"global"} |-> EmptyMap]}, {EmptyMap}, DiceRecords, {TRUE}, {NothingStored})

NextSettings ==
  \/ \E id \in PresetIds : applyPreset(id)
  \/ openSettingsModal
  \/ \E c \in {"global", "preset"} : setPityScopeChoice(c)
  \/ \E diceEdit \in ModalRows(diceSettings), pityEdit \in PityEdits :
       saveSettingsModal(diceEdit, pityEdit)

SpecSettings == InitSettings /\ [][NextSettings]_vars

\* the selection over every stored list, ledger and valid enabled config
PickConfigs ==
  [enabled : {TRUE}, softIncrement : {1, 2}, hardThreshold : {1, 2, 3},
   softMultiplierCap : {1, 2, 5}, autoResetWhenAllHardHit : {FALSE},
   lastSelectedScope : {"none"}]

InitPick ==
  InitFrom(Lists \ {<< >>}, {EmptyMap}, PickConfigs,
           {l \in StoredLedgers : DOMAIN l = {"global"}}, {EmptyMap},
           {StoredDice}, {TRUE}, {NothingStored})

NextPick ==
  \/ (StartRejected \/ WithinBounds) /\ startDecision
  \/ stopSpin

SpecPick == InitPick /\ [][NextPick]_vars

\* spins with pity disabled over the stored lists and every stored ledger
DisabledConfigs ==
  [enabled : {FALSE}, softIncrement : {1}, hardThreshold : {1, 2},
   softMultiplierCap : {2}, autoResetWhenAllHardHit : {FALSE},
   lastSelectedScope : {"none"}]

InitUniform ==
  InitFrom(StoredLists \ {<< >>}, {EmptyMap}, DisabledConfigs,
           {l \in StoredLedgers : DOMAIN l = {"global"}},
           {h \in StoredHardHits : DOMAIN h = {"global"}},
           {StoredDice}, {TRUE}, {NothingStored})

NextUniform ==
  \/ (StartRejected \/ WithinBounds) /\ startDecision
  \/ stopSpin
  \/ tickCallback
  \/ progressCallback

SpecUniform == InitUniform /\ [][NextUniform]_vars

\* spins and the history view over a storage that takes writes or refuses them
InitStorage ==
  InitFrom({<< "A", "B" >>}, {EmptyMap},
           {c \in StoredConfigs :
              c.enabled /\ c.hardThreshold = 1 /\ ~c.autoResetWhenAllHardHit},
           {[s \in {"global"} |-> EmptyMap]}, {EmptyMap}, {StoredDice},
           BOOLEAN, {NothingStored})

NextStorage ==
  \/ openHistoryModal
  \/ clearHistory
  \/ (StartRejected \/ WithinBounds) /\ startDecision
  \/ stopSpin
  \/ tickCallback
  \/ progressCallback

SpecStorage == InitStorage /\ [][NextStorage]_vars

\* construction over stored records: all keys hold the same kind of value, or
\* one key holds something and the others nothing
InitLoad ==
  InitFrom({<< >>}, {EmptyMap}, {DEFAULT_PITY_SETTINGS},
           {[s \in {"global"} |-> EmptyMap]}, {EmptyMap}, {DEFAULT_DICE},
           {TRUE},
           {r \in [Keys -> Stored] :
              \/ \E s \in Stored : \A k \in Keys : r[k] = s
              \/ \E k \in Keys : \A j \in Keys \ {k} : r[j] = "absent"})

NextLoad == \E k \in Keys : readKey(k)

SpecLoad == InitLoad /\ [][NextLoad]_vars

\* spins, option removal and the scope reset over ledgers that hold keys of
\* options no longer listed
FrameLedgers ==
  {l \in StoredLedgers :
     /\ DOMAIN l = {"global"}
     /\ \A k \in DOMAIN l["global"] : l["global"][k] <= 1}

InitFrame ==
  InitFrom({<< "A", "B" >>, << "A" >>}, {EmptyMap},
           {c \in StoredConfigs : c.enabled /\ c.hardThreshold = 1},
           FrameLedgers, {h \in StoredHardHits : DOMAIN h \subseteq {"global"}},
           {StoredDice}, {TRUE}, {NothingStored})

NextFrame ==
  \/ \E idx \in 0..(MaxLen - 1) : removeDecision(idx)
  \/ resetPityScopeButton
  \/ (StartRejected \/ WithinBounds) /\ startDecision
  \/ stopSpin
  \/ tickCallback
  \/ progressCallback

SpecFrame == InitFrame /\ [][NextFrame]_vars

\* the soft draw over every stored list and ledger, under stored configs that
\* were never validated: a negative softIncrement gives zero and negative
\* weights; the default threshold keeps hard pity out of the way
DrawConfigs ==
  [enabled : {TRUE}, softIncrement : {-1, 1, 2},
   hardThreshold : {DEFAULT_HARD_THRESHOLD}, softMultiplierCap : {2, 5},
   autoResetWhenAllHardHit : {FALSE}, lastSelectedScope : {"none"}]

InitDraw ==
  InitFrom(Lists \ {<< >>}, {EmptyMap}, DrawConfigs,
           {l \in StoredLedgers : DOMAIN l = {"global"}}, {EmptyMap},
           {StoredDice}, {TRUE}, {NothingStored})

NextDraw ==
  \/ (StartRejected \/ WithinBounds) /\ startDecision
  \/ stopSpin

SpecDraw == InitDraw /\ [][NextDraw]_vars

\* the history view over a stored log of up to two pages, with spins that
\* append to it
StoredEntry ==
  [decision |-> "A", dice |-> 1, duration |-> 1, method |-> "none"]

StoredHistories ==
  {[i \in 1..n |-> StoredEntry] :
     n \in {0, HISTORY_PAGE_SIZE, HISTORY_PAGE_SIZE + 1}}

\* spins are started on a log that is empty or within MaxHist entries of the
\* page boundary
HistoryRoom ==
  \/ Len(historyEntries) < MaxHist
  \/ /\ Len(historyEntries) >= HISTORY_PAGE_SIZE
     /\ Len(historyEntries) < HISTORY_PAGE_SIZE + 1 + MaxHist

InitHistory ==
  InitStored({<< "A" >>}, {EmptyMap}, DisabledConfigs,
             {[s \in {"global"} |-> EmptyMap]}, {EmptyMap}, {StoredDice},
             {TRUE}, {NothingStored}, StoredHistories)

NextHistory ==
  \/ openHistoryModal
  \/ clearHistory
  \/ goHistoryPrev
  \/ goHistoryNext
  \/ (StartRejected \/ HistoryRoom) /\ startDecision
  \/ stopSpin
  \/ tickCallback
  \/ progressCallback

SpecHistory == InitHistory /\ [][NextHistory]_vars

\* every spin resolves by natural completion: fixed list, fixed enabled config
NatLists == {<< "A", "B", "C" >>, << "A", "B" >>}

InitNatural ==
  InitWith(NatLists, {EmptyMap}, {c \in StoredConfigs : c.enabled})

NaturalStart ==
  /\ ~StartRejected
  /\ Len(historyEntries) < MaxSpins
  /\ startDecision

NextNatural ==
  \/ NaturalStart
  \/ tickCallback
  \/ progressCallback

\* spins keep being started, and a scheduled timeout fires
SpecNatural ==
  InitNatural /\ [][NextNatural]_vars
    /\ WF_vars(NaturalStart) /\ WF_vars(tickCallback)

\* ------------------------------------------------------------------ claims

Distinct(list) == \A i, j \in DOMAIN list : i # j => list[i] # list[j]

Resolves == machine = "Running" /\ machine' \in {"Completed", "Stopped"}

Recorded(o) == \E i \in DOMAIN historyEntries : historyEntries[i].decision = o

\* the lowest index (1-based) holding the highest miss-count of the list
FirstMax(list, counts) ==
  CHOOSE i \in DOMAIN list :
    /\ \A j \in DOMAIN list : CountOf(counts, list[j]) <= CountOf(counts, list[i])
    /\ \A j \in DOMAIN list : j < i => CountOf(counts, list[j]) < CountOf(counts, list[i])

\* C1 (as stated): with pity enabled, every resolution leaves the chosen
\* option at 0 and raises every other listed option by exactly 1 in the
\* active scope, for every list, lists with repeated text included.
C1_Monotonicity_Original ==
  [][ (Resolves /\ pitySettings.enabled
         /\ Len(historyEntries') > Len(historyEntries))
      => LET chosen == IF machine' = "Stopped" THEN activeIndex
                       ELSE spin.finalIndex
             scope == resolveScopeKey(pityScopeChoice, currentPresetId)
         IN \A i \in DOMAIN decisions :
              CountOf(ScopeCounts(pityAll', scope), decisions[i]) =
                IF i - 1 = chosen THEN 0
                ELSE CountOf(ScopeCounts(pityAll, scope), decisions[i]) + 1
    ]_vars

\* C1 (amended): for a list of pairwise distinct options and a resolving path
\* that sees pity enabled, the chosen option ends at 0 and every other listed
\* option at one more than its count in the ledger that path read (the
\* current ledger for a manual stop, the ledger captured at start for a
\* natural completion); or the auto-reset fired and all listed counts are 0
\* and the scope's hard-hit set is empty.
C1_Monotonicity ==
  [][ (Resolves /\ Len(historyEntries') > Len(historyEntries))
      => LET stopped == machine' = "Stopped"
             list == IF stopped THEN decisions ELSE spin.decisions
             chosen == IF stopped THEN activeIndex ELSE spin.finalIndex
             cfg == IF stopped THEN pitySettings ELSE spin.cfg
             scope == IF stopped
                      THEN resolveScopeKey(pityScopeChoice, currentPresetId)
                      ELSE spin.scope
             read == ScopeCounts(IF stopped THEN pityAll ELSE spin.pityAll, scope)
         IN (cfg.enabled /\ Distinct(list)) =>
              \/ \A i \in DOMAIN list :
                   CountOf(ScopeCounts(pityAll', scope), list[i]) =
                     IF i - 1 = chosen THEN 0 ELSE CountOf(read, list[i]) + 1
              \/ /\ cfg.autoResetWhenAllHardHit
                 /\ \A i \in DOMAIN list :
                      CountOf(ScopeCounts(pityAll', scope), list[i]) = 0
                 /\ ScopeHits(pityHardHitsAll', scope) = {}
    ]_vars

C1_Witness ==
  /\ machine \in {"Completed", "Stopped"}
  /\ spinUpdates = 1
  /\ decisions = << "A", "B" >>
  /\ \E k \in Options : CountOf(ScopeCounts(pityAll, "global"), k) = 2

\* C2 (as stated): an option whose miss-count was >= hardThreshold when the
\* spin started (pity enabled) is the recorded outcome of that spin's
\* resolution, whichever way it resolves.
C2_HardPity_Original ==
  [][ (Resolves /\ spin.cfg.enabled)
      => \A k \in Range(spin.decisions) :
           CountOf(ScopeCounts(spin.pityAll, spin.scope), k)
               >= spin.cfg.hardThreshold
           => /\ Len(historyEntries') = Len(historyEntries) + 1
              /\ historyEntries'[1].decision = k
    ]_vars

\* C2 (amended): when some option's miss-count was >= hardThreshold at start
\* (pity enabled), a natural completion records the first option holding
\* the highest miss-count, with method "hard-pity", and leaves the cursor on it.
C2_HardPity ==
  [][ (machine = "Running" /\ machine' = "Completed" /\ spin.cfg.enabled
         /\ \E k \in Range(spin.decisions) :
              CountOf(ScopeCounts(spin.pityAll, spin.scope), k)
                >= spin.cfg.hardThreshold)
      => LET m == FirstMax(spin.decisions, ScopeCounts(spin.pityAll, spin.scope))
         IN /\ Len(historyEntries') = Len(historyEntries) + 1
            /\ historyEntries'[1].decision = spin.decisions[m]
            /\ historyEntries'[1].method = "hard-pity"
            /\ activeIndex' = m - 1
    ]_vars

C2_Witness ==
  /\ machine = "Completed"
  /\ Len(historyEntries) >= 1
  /\ historyEntries[1].method = "hard-pity"

\* C3: with pity enabled, a fixed list of distinct options and a fixed
\* config, when spins keep being started and resolve naturally, every option
\* of the list is eventually a recorded outcome.
C3_EventualSelection ==
  <>(\A o \in Range(decisions) : Recorded(o))

C3_Witness ==
  /\ Len(decisions) = 3
  /\ \A o \in Range(decisions) : Recorded(o)
  /\ historyEntries[1].method = "hard-pity"
  /\ pitySettings.hardThreshold = 2

\* C4 (as stated): every spin that has left Running by completion or stop
\* appended exactly one history entry and applied at most one ledger update;
\* a running spin has appended none.
C4_SingleBookkeeping_Original ==
  /\ machine \in {"Completed", "Stopped"} => spinEntries = 1 /\ spinUpdates <= 1
  /\ machine = "Running" => spinEntries = 0 /\ spinUpdates = 0

\* C5 (as stated): every stop() issued while Running appends exactly one
\* entry, with method "manual-stop" and the option under the cursor, and
\* (pity enabled) applies the ledger update for the cursor's index.
C5_EarlyStop_Original ==
  [][ (spinRunningRef /\ lastOp' = "stop")
      => /\ Len(historyEntries') = Len(historyEntries) + 1
         /\ OnRealOption(decisions, activeIndex)
         /\ historyEntries'[1].method = "manual-stop"
         /\ historyEntries'[1].decision = decisions[activeIndex + 1]
         /\ pitySettings.enabled =>
              pityAll' = applyPityUpdate(
                           resolveScopeKey(pityScopeChoice, currentPresetId),
                           decisions, activeIndex, "manual-stop", pityAll,
                           pityHardHitsAll, pitySettings).pityAll
    ]_vars

\* C6: the index and method picked in start() stay fixed while the spin runs
\* and are what natural completion commits: cursor forced to that index, a
\* history entry with that option and method, the ledger update for that index.
C6_WinnerFixedAtStart ==
  [][ /\ (spinRunningRef /\ spinRunningRef')
        => /\ spin'.finalIndex = spin.finalIndex
           /\ spin'.method = spin.method
           /\ spin'.decisions = spin.decisions
      /\ (machine = "Running" /\ machine' = "Completed")
        => /\ activeIndex' = spin.finalIndex
           /\ historyEntries' =
                << [decision |-> spin.decisions[spin.finalIndex + 1],
                    dice |-> spin.roll, duration |-> spin.sec,
                    method |-> spin.method] >> \o historyEntries
           /\ spin.cfg.enabled =>
                pityAll' = applyPityUpdate(spin.scope, spin.decisions,
                             spin.finalIndex, spin.method, spin.pityAll,
                             spin.hardHits, spin.cfg).pityAll
    ]_vars

C6_Witness ==
  /\ machine = "Completed"
  /\ lastOp = "tick"
  /\ currentPresetId # NULL
  /\ Len(historyEntries) = 1
  /\ historyEntries[1].decision = "A"
  /\ historyEntries[1].method = "soft-weight"

C8_NoMidSpinMutation_Original ==
  [][ (machine = "Running" /\ machine' = "Running")
      => UNCHANGED << pityAll, pityHardHitsAll, historyEntries >>
    ]_vars

\* C9: start() while a spin is running or with an empty list changes nothing:
\* no roll published, no timer armed, winner, state, progress, ledger and
\* history as before.
C9_StartGuard ==
  [][ (lastOp' = "start" /\ (isRunning \/ Len(decisions) = 0))
      => UNCHANGED << decisions, activeIndex, isRunning, presets,
                      historyEntries, diceSettings, pityAll, pityHardHitsAll,
                      pitySettings, pityScopeChoice, currentPresetId, diceRoll,
                      diceDurationSec, progress, spinTimeoutRef,
                      progressIntervalRef, spinRunningRef, elapsed, spin,
                      machine >>
    ]_vars

C9_Witness ==
  /\ lastOp = "start"
  /\ isRunning
  /\ spin.tick > 0

\* C10 (as stated): stop() when no spin is running appends nothing, updates
\* nothing and leaves machine state, cursor and published progress unchanged.
C10_StopGuard_Original ==
  [][ (~spinRunningRef /\ lastOp' = "stop")
      => UNCHANGED << historyEntries, pityAll, pityHardHitsAll, machine,
                      activeIndex, progress >>
    ]_vars

\* the transitions of the spin machine
MachineSteps ==
  { << "Idle", "Running" >>, << "Running", "Completed" >>,
    << "Running", "Stopped" >>, << "Completed", "Running" >>,
    << "Stopped", "Running" >> }

\* C11: the machine state changes only along Idle->Running,
\* Running->Completed, Running->Stopped, Completed->Running and
\* Stopped->Running; a start() issued in Completed or Stopped with a
\* non-empty list enters Running; only Running is followed by Completed or
\* Stopped.
C11_MachineTransitions ==
  [][ /\ machine' # machine => << machine, machine' >> \in MachineSteps
      /\ (machine \in {"Completed", "Stopped"} /\ lastOp' = "start"
            /\ Len(decisions) > 0)
           => machine' = "Running" /\ isRunning' /\ spinRunningRef'
      /\ machine' \in {"Completed", "Stopped"}
           => machine \in {"Running", machine'}
    ]_vars

C11_Witness ==
  /\ machine = "Running"
  /\ lastOp = "start"
  /\ diceRoll # 0
  /\ \E k \in Options : CountOf(ScopeCounts(pityAll, "global"), k) >= 1

\* C12: with autoResetWhenAllHardHit true, a resolution whose ledger update
\* finds every key of the list in the scope's hard-hit set (the set it read
\* plus the option chosen by hard pity) leaves every miss-count of the scope
\* at 0 and the scope's hard-hit set empty; when some key is missing, the
\* counts of the other options go up and the hard-hit set is not cleared.
C12_AutoReset ==
  [][ (Resolves /\ Len(historyEntries') > Len(historyEntries))
      => LET stopped == machine' = "Stopped"
             list == IF stopped THEN decisions ELSE spin.decisions
             chosen == IF stopped THEN activeIndex ELSE spin.finalIndex
             cfg == IF stopped THEN pitySettings ELSE spin.cfg
             scope == IF stopped
                      THEN resolveScopeKey(pityScopeChoice, currentPresetId)
                      ELSE spin.scope
             hard == historyEntries'[1].method = "hard-pity"
             readHits == ScopeHits(IF stopped THEN pityHardHitsAll
                                   ELSE spin.hardHits, scope)
             readCounts == ScopeCounts(IF stopped THEN pityAll
                                       ELSE spin.pityAll, scope)
             hitsAfter == IF hard THEN readHits \cup {list[chosen + 1]}
                          ELSE readHits
             after == ScopeCounts(pityAll', scope)
         IN (cfg.enabled /\ cfg.autoResetWhenAllHardHit) =>
              IF Range(list) \subseteq hitsAfter
              THEN /\ \A k \in DOMAIN after : after[k] = 0
                   /\ \A k \in Range(list) : k \in DOMAIN after
                   /\ scope \in DOMAIN pityHardHitsAll'
                   /\ pityHardHitsAll'[scope] = {}
              ELSE /\ \A k \in Range(list) :
                        k # list[chosen + 1]
                          => CountOf(after, k) >= CountOf(readCounts, k) + 1
                   /\ ScopeHits(pityHardHitsAll', scope) =
                        IF hard THEN hitsAfter
                        ELSE ScopeHits(pityHardHitsAll, scope)
    ]_vars

C12_Witness ==
  /\ machine = "Completed"
  /\ lastOp = "tick"
  /\ pitySettings.autoResetWhenAllHardHit
  /\ decisions = << "A", "B" >>
  /\ Len(historyEntries) = 1
  /\ historyEntries[1].method = "hard-pity"
  /\ pityAll = [s \in {"global"} |-> [k \in {"A", "B"} |-> 0]]
  /\ "global" \in DOMAIN pityHardHitsAll
  /\ pityHardHitsAll["global"] = {}

\* C13: after resetPityForScope every option of the list has miss-count 0 in
\* that scope and the scope's hard-hit set is empty, and a second reset right
\* after it leaves the ledger and the hard-hit records as the first left them.
C13_IdempotentReset ==
  [][ resetPityScopeButton
      => LET scope == resolveScopeKey(pityScopeChoice, currentPresetId)
             again == ResetScope(pityAll', pityHardHitsAll', scope, decisions')
         IN /\ \A o \in Range(decisions) :
                 CountOf(ScopeCounts(pityAll', scope), o) = 0
            /\ ScopeHits(pityHardHitsAll', scope) = {}
            /\ again.pityAll = pityAll'
            /\ again.hardHitsAll = pityHardHitsAll'
    ]_vars

C13_Witness ==
  /\ currentPresetId # NULL
  /\ pityScopeChoice = "preset"
  /\ currentPresetId \in DOMAIN pityAll
  /\ pityAll[currentPresetId] = [k \in {"B"} |-> 0]
  /\ currentPresetId \in DOMAIN pityHardHitsAll
  /\ pityHardHitsAll[currentPresetId] = {}
  /\ "global" \in DOMAIN pityHardHitsAll
  /\ pityHardHitsAll["global"] = {"A"}

\* the scope key a spin started in this state reads its miss-counts from
ActiveScope == resolveScopeKey(pityScopeChoice, currentPresetId)

\* C14 (as stated): after a preset is applied, the scope the next spin reads
\* from and writes to is the preset's identifier, for every preset, also one
\* that has no ledger entry yet.
C14_PresetScope_Original ==
  [][ \A id \in PresetIds : applyPreset(id) => ActiveScope' = id ]_vars

\* C14 (amended): after a preset is applied, the active scope is the preset's
\* identifier when the ledger already holds an entry for it and "global"
\* otherwise; a spin started next reads its miss-counts from the active scope,
\* a natural completion writes its ledger update to the scope the spin started
\* with and an early stop to the scope active at the stop.
C14_PresetScope ==
  [][ /\ \A id \in PresetIds :
           applyPreset(id)
             => ActiveScope' = IF id \in DOMAIN pityAll THEN id ELSE "global"
      /\ (lastOp' = "start" /\ ~StartRejected)
           => /\ spin'.scope = ActiveScope
              /\ spin'.method = "hard-pity"
                   => \E k \in Range(decisions) :
                        CountOf(ScopeCounts(pityAll, ActiveScope), k)
                          >= pitySettings.hardThreshold
      /\ (Resolves /\ Len(historyEntries') > Len(historyEntries))
           => LET scope == IF machine' = "Stopped" THEN ActiveScope
                           ELSE spin.scope
                  chosenKey == historyEntries'[1].decision
              IN /\ scope \in DOMAIN pityAll'
                 /\ chosenKey \in DOMAIN pityAll'[scope]
                 /\ pityAll'[scope][chosenKey] = 0
    ]_vars

C14_Witness ==
  /\ machine = "Running"
  /\ lastOp = "start"
  /\ currentPresetId # NULL
  /\ spin.scope = currentPresetId
  /\ currentPresetId \in DOMAIN spin.pityAll
  /\ spin.decisions = presets[currentPresetId]

\* C15 (as stated): a spin resolution or a scope reset performed under scope S
\* leaves the miss-counts and the hard-hit set of every other scope unchanged.
C15_ScopeIndependence_Original ==
  [][ /\ \A S \in Scopes :
           ( \/ resetPityScopeButton /\ S = ActiveScope
             \/ /\ Resolves /\ Len(historyEntries') > Len(historyEntries)
                /\ S = IF machine' = "Stopped" THEN ActiveScope ELSE spin.scope )
           => \A T \in Scopes \ {S} :
                /\ (T \in DOMAIN pityAll') = (T \in DOMAIN pityAll)
                /\ ScopeCounts(pityAll', T) = ScopeCounts(pityAll, T)
                /\ ScopeHits(pityHardHitsAll', T) = ScopeHits(pityHardHitsAll, T)
    ]_vars

\* C16 (as stated): saving a dice table with fewer than 2 faces is rejected,
\* the active table is not replaced; a table of 2 valid faces with distinct
\* numbers is accepted and becomes the active table.
C16_MinimumFaces_Original ==
  [][ \A diceEdit \in ModalRows(diceSettings), pityEdit \in PityEdits :
        saveSettingsModal(diceEdit, pityEdit)
          => /\ Len(diceEdit) < 2 => diceSettings' = diceSettings
             /\ ( /\ Len(diceEdit) = 2
                  /\ \A i \in 1..2 : diceEdit[i].num \in 1..50
                                       /\ diceEdit[i].sec \in 1..60
                  /\ diceEdit[1].num # diceEdit[2].num
                  /\ pityEdit.softIncrement > 0
                  /\ pityEdit.hardThreshold >= 1
                  /\ pityEdit.softMultiplierCap >= 1 )
                 => /\ Len(diceSettings') = 2
                    /\ Range(diceSettings') = Range(diceEdit)
    ]_vars

\* C17 (as stated): in every reachable state, whatever dice record was stored
\* and whatever was edited and saved, the active dice table has at least 2
\* entries and pairwise-distinct face values.
C17_DiceTableInvariant_Original ==
  /\ Len(diceSettings) >= 2
  /\ \A i, j \in DOMAIN diceSettings :
       i # j => diceSettings[i].num # diceSettings[j].num

\* C18: a save that fails validation (a dice row out of range or a repeated
\* face number, softIncrement not > 0, hardThreshold or cap not >= 1) changes
\* neither the active dice table nor the active pity config; a save that
\* passes every check replaces both, the table by the rows in face order.
C18_RejectedEditsCommitNothing ==
  [][ \A diceEdit \in ModalRows(diceSettings), pityEdit \in PityEdits :
        saveSettingsModal(diceEdit, pityEdit)
          => LET rowBad == \E i \in DOMAIN diceEdit :
                             \/ diceEdit[i].num \notin 1..50
                             \/ diceEdit[i].sec \notin 1..60
                 repeated == \E i, j \in DOMAIN diceEdit :
                               i # j /\ diceEdit[i].num = diceEdit[j].num
                 pityBad == \/ pityEdit.softIncrement <= 0
                            \/ pityEdit.hardThreshold < 1
                            \/ pityEdit.softMultiplierCap < 1
             IN IF rowBad \/ repeated \/ pityBad
                THEN diceSettings' = diceSettings /\ pitySettings' = pitySettings
                ELSE /\ Len(diceSettings') = Len(diceEdit)
                     /\ Range(diceSettings') = Range(diceEdit)
                     /\ \A i, j \in DOMAIN diceSettings' :
                          i < j => diceSettings'[i].num < diceSettings'[j].num
                     /\ \A f \in DOMAIN pityEdit :
                          pitySettings'[f] = pityEdit[f]
                     /\ pitySettings'.lastSelectedScope = pityScopeChoice
    ]_vars

C18_Witness ==
  /\ diceSettings = << [num |-> 1, sec |-> 2], [num |-> 2, sec |-> 1] >>
  /\ pitySettings.lastSelectedScope = "preset"
  /\ pitySettings.hardThreshold = 2
  /\ ~pitySettings.enabled

\* C19: with pity enabled, a started spin's selection has method "hard-pity"
\* exactly when some listed option's miss-count is >= hardThreshold, and then
\* the chosen index is the lowest one holding the highest miss-count, whatever
\* the draw; otherwise the method is "soft-weight" and the index is in the list.
C19_HardOverride ==
  [][ (lastOp' = "start" /\ ~StartRejected /\ pitySettings.enabled)
      => LET counts == ScopeCounts(pityAll, ActiveScope)
         IN IF \E i \in DOMAIN decisions :
                  CountOf(counts, decisions[i]) >= pitySettings.hardThreshold
            THEN /\ spin'.method = "hard-pity"
                 /\ spin'.finalIndex = FirstMax(decisions, counts) - 1
            ELSE /\ spin'.method = "soft-weight"
                 /\ spin'.finalIndex \in 0..(Len(decisions) - 1)
    ]_vars

C19_Witness ==
  /\ machine = "Running"
  /\ lastOp = "start"
  /\ spin.decisions = << "A", "B" >>
  /\ spin.cfg.hardThreshold = 2
  /\ ScopeCounts(spin.pityAll, spin.scope) = [k \in Options |-> 2]
  /\ spin.method = "hard-pity"
  /\ spin.finalIndex = 0

\* C20: for the list, miss-counts and valid config of any state, the soft
\* weight of every option is min(1 + softIncrement * m, cap), so it lies
\* between 1 and the cap; with softIncrement 1 and cap 5, miss-counts 0 and 1
\* weigh 1 and 2.
C20_WeightCap ==
  LET counts == ScopeCounts(pityAll, ActiveScope)
      s == pitySettings.softIncrement
      C == pitySettings.softMultiplierCap
      w == Weights(decisions, counts, s, C)
  IN (s >= 1 /\ C >= 1)
       => /\ DOMAIN w = DOMAIN decisions
          /\ \A i \in DOMAIN decisions :
               LET m == CountOf(counts, decisions[i])
               IN /\ w[i] = IF 1 + s * m <= C THEN 1 + s * m ELSE C
                  /\ 1 <= w[i] /\ w[i] <= C
                  /\ (s = 1 /\ C = 5 /\ m = 0) => w[i] = 1
                  /\ (s = 1 /\ C = 5 /\ m = 1) => w[i] = 2

C20_Witness ==
  /\ machine = "Running"
  /\ spin.method = "soft-weight"
  /\ spin.finalIndex = 1
  /\ pitySettings.softIncrement = 1
  /\ pitySettings.softMultiplierCap = 5
  /\ decisions = << "A", "B" >>
  /\ ScopeCounts(pityAll, ActiveScope) = [k \in Options |-> IF k = "A" THEN 0 ELSE 1]

\* C21: with pity disabled every index of the list can be the winner of a
\* started spin, whatever the miss-counts and the threshold; the method is
\* "none", and the resolution records it and leaves the ledger and the
\* hard-hit records unchanged.
C21_DisabledUniform ==
  [][ /\ (~StartRejected /\ ~pitySettings.enabled /\ WithinBounds)
           => \A i \in 0..(Len(decisions) - 1) :
                ENABLED (startDecision /\ spin'.finalIndex = i
                           /\ spin'.method = "none")
      /\ (lastOp' = "start" /\ ~StartRejected /\ ~pitySettings.enabled)
           => /\ spin'.method = "none"
              /\ spin'.finalIndex \in 0..(Len(decisions) - 1)
      /\ (Resolves /\ ~pitySettings.enabled)
           => /\ UNCHANGED << pityAll, pityHardHitsAll >>
              /\ machine' = "Completed"
                   => /\ historyEntries'[1].method = "none"
                      /\ historyEntries'[1].decision
                           = decisions[spin.finalIndex + 1]
    ]_vars

C21_Witness ==
  /\ machine = "Completed"
  /\ ~pitySettings.enabled
  /\ decisions = << "A", "B" >>
  /\ pitySettings.hardThreshold = 1
  /\ CountOf(ScopeCounts(pityAll, "global"), "A") = 2
  /\ CountOf(ScopeCounts(pityAll, "global"), "B") = 0
  /\ historyEntries[1].decision = "B"
  /\ historyEntries[1].method = "none"

\* the log after the step is the log before it with one new entry in front
Appended ==
  /\ Len(historyEntries') = Len(historyEntries) + 1
  /\ \A i \in DOMAIN historyEntries : historyEntries'[i + 1] = historyEntries[i]

\* C22 (as stated): the history changes only by an append, which puts the new
\* entry first and keeps the earlier entries in order, or by clear(); viewing
\* the log leaves it as it is.
C22_AppendOnly_Original ==
  [][ /\ historyEntries' # historyEntries => (Appended \/ clearHistory)
      /\ lastOp' = "history" => historyEntries' = historyEntries
    ]_vars

\* C23 (as stated): when writes to storage fail, the in-memory log, ledger,
\* hard-hit records and config stay the ones the operations produced, through
\* every later operation, opening the history view included.
C23_NoRollback_Original ==
  [][ (~writable /\ openHistoryModal)
        => UNCHANGED << historyEntries, pityAll, pityHardHitsAll,
                        pitySettings, diceSettings >>
    ]_vars

\* C24 (as stated): every record read at load has the type of its default, a
\* stored value that is absent, unparsable or of the wrong shape gives the
\* default, and a single bare preset object becomes a 1-element sequence.
C24_TypedDefaults_Original ==
  \A k \in Keys :
    loaded[k] # Unread
      => LET want == IF k \in ArrayKeys THEN "array" ELSE "object"
             wellFormed == records[k] = want
         IN /\ loaded[k].type = want
            /\ (k = "presets_v1" /\ records[k] = "object")
                 => loaded[k].origin = "upgraded"
            /\ (~wellFormed /\ ~(k = "presets_v1" /\ records[k] = "object"))
                 => loaded[k].origin = "default"

\* C25: stopping a Running spin leaves the cursor where it was when stop was
\* called, and nothing moves it while the machine stays Stopped.
C25_StopKeepsCursor ==
  [][ /\ (spinRunningRef /\ lastOp' = "stop") => activeIndex' = activeIndex
      /\ (machine = "Stopped" /\ machine' = "Stopped")
           => activeIndex' = activeIndex
    ]_vars

C25_Witness ==
  /\ machine = "Stopped"
  /\ lastOp = "stop"
  /\ decisions = << "A", "B" >>
  /\ activeIndex = 1
  /\ Len(historyEntries) = 1
  /\ historyEntries[1].decision = "B"
  /\ historyEntries[1].method = "manual-stop"

\* C26: a Running spin has seen at most totalTicks tick callbacks that
\* re-armed the timer, and when the tick timer keeps firing every Running
\* spin leaves Running, also when stop is never called and the clock never
\* reaches the duration.
C26_SpinTerminates ==
  /\ [](machine = "Running" => spin.tick <= spin.totalTicks)
  /\ (machine = "Running" ~> machine # "Running")

C26_Witness ==
  /\ machine = "Running"
  /\ spin.tick = spin.totalTicks
  /\ elapsed = 0
  /\ spinTimeoutRef

\* C27: in every reachable state in which the running flag is false, no tick
\* timeout and no progress interval is scheduled; in particular right after
\* stop and after teardown the flag is false and both are cleared.
C27_AtomicCancel ==
  /\ ~spinRunningRef => (~spinTimeoutRef /\ ~progressIntervalRef)
  /\ (lastOp = "stop" \/ ~mounted) => ~spinRunningRef

C27_Witness ==
  /\ ~mounted
  /\ machine = "Running"
  /\ isRunning
  /\ progress > 0
  /\ ~spinRunningRef /\ ~spinTimeoutRef /\ ~progressIntervalRef

\* the stored counts of the scope's keys outside the list are as before
StaleKept(before, after, scope, list) ==
  \A k \in (DOMAIN ScopeCounts(before, scope)) \ Range(list) :
    /\ scope \in DOMAIN after
    /\ k \in DOMAIN after[scope]
    /\ after[scope][k] = before[scope][k]

\* the scope holds a zero count for each listed key and no other key
Purged(after, scope, list) ==
  /\ scope \in DOMAIN after
  /\ after[scope] = [k \in Range(list) |-> 0]

\* C28 as stated: resetScope and applyOutcome (at a stop and at a natural
\* completion) leave every stored count of the scope whose key is not in the
\* options of the call exactly as it was in the ledger the call was given.
C28_LedgerFrame_Original ==
  [][ /\ resetPityScopeButton =>
           StaleKept(pityAll, pityAll', ActiveScope, decisions)
      /\ (lastOp' = "stop" /\ spinUpdates' # spinUpdates) =>
           StaleKept(pityAll, pityAll', ActiveScope, decisions)
      /\ (lastOp' = "tick" /\ spinUpdates' # spinUpdates) =>
           StaleKept(spin.pityAll, pityAll', spin.scope, spin.decisions) ]_vars

\* C28 amended: applyOutcome without an auto-reset leaves every stored count
\* of the scope whose key is not in its options as it was in the ledger the
\* call was given; resetScope, and applyOutcome when its auto-reset fires,
\* replace the counts of the scope by a zero for each option of the call, so
\* the keys of removed options are purged.
C28_LedgerFrame ==
  [][ /\ resetPityScopeButton => Purged(pityAll', ActiveScope, decisions)
      /\ (lastOp' = "stop" /\ spinUpdates' # spinUpdates) =>
           IF AllHit(pitySettings, Range(decisions),
                     ScopeHits(pityHardHitsAll, ActiveScope))
           THEN Purged(pityAll', ActiveScope, decisions)
           ELSE StaleKept(pityAll, pityAll', ActiveScope, decisions)
      /\ (lastOp' = "tick" /\ spinUpdates' # spinUpdates) =>
           IF AllHit(spin.cfg, Range(spin.decisions),
                     ScopeHits(spin.hardHits, spin.scope) \cup
                       (IF spin.method = "hard-pity"
                        THEN {spin.decisions[spin.finalIndex + 1]} ELSE {}))
           THEN Purged(pityAll', spin.scope, spin.decisions)
           ELSE StaleKept(spin.pityAll, pityAll', spin.scope, spin.decisions)
    ]_vars

C28_Witness ==
  /\ lastOp = "tick"
  /\ machine = "Completed"
  /\ spinUpdates > 0
  /\ decisions = << "A" >>
  /\ "global" \in DOMAIN pityAll
  /\ "B" \in DOMAIN pityAll["global"]
  /\ pityAll["global"]["B"] = 1

\* the step is the natural completion of a spin in scope s that resolved to
\* the option key k by hard pity
HardResolution(s, k) ==
  /\ lastOp' = "tick"
  /\ spinUpdates' # spinUpdates
  /\ spin.method = "hard-pity"
  /\ spin.scope = s
  /\ spin.decisions[spin.finalIndex + 1] = k

\* the step resets scope s: by a button, or by the auto-reset of an update
ResetOf(s) ==
  \/ resetPityScopeButton /\ ActiveScope = s
  \/ resetAllPityButton
  \/ /\ lastOp' = "stop" /\ spinUpdates' # spinUpdates /\ ActiveScope = s
     /\ AllHit(pitySettings, Range(decisions),
               ScopeHits(pityHardHitsAll, s))
  \/ /\ lastOp' = "tick" /\ spinUpdates' # spinUpdates /\ spin.scope = s
     /\ AllHit(spin.cfg, Range(spin.decisions),
               ScopeHits(spin.hardHits, s)
                 \cup (IF spin.method = "hard-pity"
                       THEN {spin.decisions[spin.finalIndex + 1]} ELSE {}))

\* C29 as stated: a key enters a scope's hard-hit set only by a hard-pity
\* resolution to that key in that scope, it leaves the set only by a reset of
\* that scope, and a hard-pity resolution that does not reset the scope puts
\* its key into the set; so a key is in the set exactly when such a resolution
\* happened since the last reset, and soft-weight, none and manual-stop
\* resolutions never add one.
C29_HardHitMembership_Original ==
  [][ \A s \in Scopes : \A k \in Options :
        LET before == k \in ScopeHits(pityHardHitsAll, s)
            after == k \in ScopeHits(pityHardHitsAll', s)
        IN /\ (~before /\ after) => HardResolution(s, k)
           /\ (before /\ ~after) => ResetOf(s)
           /\ (HardResolution(s, k) /\ ~ResetOf(s)) => after ]_vars

\* C30: the published progress is always an integer in 0..100; an accepted
\* start and every stop leave it 0, a natural completion leaves it 100, and
\* the progress callback runs only while the spin is Running, so nothing it
\* does changes the value after the spin has left Running.
C30_ProgressInvariant ==
  /\ [](progress \in 0..100)
  /\ [][ /\ (lastOp' = "start" /\ ~StartRejected) => progress' = 0
         /\ lastOp' = "stop" => progress' = 0
         /\ (lastOp' = "tick" /\ machine = "Running" /\ machine' = "Completed")
              => progress' = 100
         /\ lastOp' = "progress" => machine = "Running"
         /\ (machine # "Running" /\ machine' # "Running" /\ lastOp' # "stop")
              => progress' = progress ]_vars

C30_Witness ==
  /\ lastOp = "progress"
  /\ machine = "Running"
  /\ elapsed > spin.desiredMs
  /\ progress = 100

\* w[1] + ... + w[i], each weight counted as the function counts it (a
\* negative weight as 0)
RECURSIVE PrefixWeight(_, _)
PrefixWeight(w, i) ==
  IF i = 0 THEN 0 ELSE PrefixWeight(w, i - 1) + (IF w[i] > 0 THEN w[i] ELSE 0)

\* the first index (from 0) at which the remainder of the draw twiceR / 2,
\* less the weights up to it, is <= 0
FirstCross(w, twiceR) ==
  (CHOOSE i \in 1..Len(w) :
     /\ twiceR - 2 * PrefixWeight(w, i) <= 0
     /\ \A j \in 1..(i - 1) : twiceR - 2 * PrefixWeight(w, j) > 0) - 1

\* the weights the soft draw of a start in this state is made over
DrawWeights ==
  Weights(decisions, ScopeCounts(pityAll, ActiveScope),
          OrDefault(pitySettings.softIncrement, DEFAULT_SOFT_INCREMENT),
          OrDefault(pitySettings.softMultiplierCap, DEFAULT_CAP))

\* the start of this state makes a soft draw
SoftDraw ==
  /\ ~StartRejected
  /\ pitySettings.enabled
  /\ HardCandidate(decisions, ScopeCounts(pityAll, ActiveScope),
                   OrDefault(pitySettings.hardThreshold,
                             DEFAULT_HARD_THRESHOLD)) < 0

\* C31: the weighted choice over a non-empty weight list returns, for every
\* draw r in [0, total), the first index at which the remainder r - (w[0] +
\* ... + w[i]) is <= 0; the result is a valid index, every index of positive
\* weight is returned for some draw, and with a total of 0 every valid index
\* can be returned and nothing else.
C31_WeightedDraw ==
  [][ LET w == DrawWeights
          total == PrefixWeight(w, Len(w))
          grid == 0..(2 * total - 1)
          valid == 0..(Len(w) - 1)
          results == IF total = 0 THEN valid
                     ELSE {FirstCross(w, r) : r \in grid}
      IN /\ SoftDraw =>
              /\ \A r \in grid : \A u \in valid :
                   weightedRandomIndex(w, r, u) = FirstCross(w, r)
              /\ \A i \in 1..Len(w) : w[i] > 0 => (i - 1) \in results
              /\ results \subseteq valid
         /\ (SoftDraw /\ total = 0 /\ WithinBounds) =>
              \A i \in valid :
                ENABLED (startDecision /\ spin'.finalIndex = i
                           /\ spin'.method = "soft-weight")
         /\ (SoftDraw /\ lastOp' = "start") => spin'.finalIndex \in results
    ]_vars

C31_Witness ==
  /\ lastOp = "start"
  /\ machine = "Running"
  /\ spin.method = "soft-weight"
  /\ spin.cfg.softIncrement = -1
  /\ spin.decisions = << "A", "B" >>
  /\ ScopeCounts(spin.pityAll, spin.scope) = [k \in Options |-> 1]
  /\ spin.finalIndex = 1

\* C32: after Reset All Pity the miss-count read for every scope and every
\* option key is 0 and every scope's hard-hit set is empty, whatever the
\* ledger and the records held before.
C32_ResetAllClears ==
  [][ resetAllPityButton =>
        \A s \in Scopes :
          /\ \A k \in Options : CountOf(ScopeCounts(pityAll', s), k) = 0
          /\ ScopeHits(pityHardHitsAll', s) = {} ]_vars

C32_Witness ==
  /\ lastOp = "other"
  /\ pityAll = EmptyMap
  /\ pityHardHitsAll = EmptyMap
  /\ currentPresetId \in PresetIds

\* C33: when a spin resolves by natural completion, the ledger and the
\* hard-hit records are those current just before the resolution (so the
\* result of any reset made while the spin was Running) with that spin's update
\* applied on top; nothing that was current when the spin started is restored.
C33_NoLostReset_Original ==
  [][ (lastOp' = "tick" /\ spinUpdates' # spinUpdates) =>
        LET upd == applyPityUpdate(spin.scope, spin.decisions, spin.finalIndex,
                                   spin.method, pityAll, pityHardHitsAll,
                                   spin.cfg)
        IN /\ pityAll' = upd.pityAll
           /\ pityHardHitsAll' = IF upd.setHard THEN upd.hardHitsAll
                                 ELSE pityHardHitsAll ]_vars

\* C34: in every reachable state the cursor is -1 or an index of the current
\* option list, and while a spin is Running on a non-empty list it is an
\* index of the list; also after a preset is applied during the spin and
\* after that spin completes.
C34_CursorRange_Original ==
  /\ activeIndex = -1 \/ activeIndex \in 0..(Len(decisions) - 1)
  /\ (machine = "Running" /\ mounted /\ Len(decisions) > 0)
       => activeIndex \in 0..(Len(decisions) - 1)

\* C35: whenever a resolution appends a history entry, the recorded decision
\* is an element of the option list current at that moment; and whenever it
\* updates the ledger, the update is made in the scope active at that moment
\* over the current list (every current option has a count there, the recorded
\* one 0), also when a preset was applied after the spin started.
C35_RecordedInCurrentList_Original ==
  [][ /\ (lastOp' \in {"tick", "stop"} /\ spinEntries' = spinEntries + 1)
           => historyEntries'[1].decision \in Range(decisions)
      /\ (lastOp' \in {"tick", "stop"} /\ spinUpdates' = spinUpdates + 1)
           => /\ ActiveScope \in DOMAIN pityAll'
              /\ Range(decisions) \subseteq DOMAIN pityAll'[ActiveScope]
              /\ CountOf(pityAll'[ActiveScope], historyEntries'[1].decision) = 0
              /\ historyEntries'[1].decision \in DOMAIN pityAll'[ActiveScope]
    ]_vars

\* C36: once a preset is deleted (its id is no longer among the presets),
\* neither the ledger nor the hard-hit records hold an entry keyed by its id
\* and the active scope does not resolve to it; in every later state, also
\* after a spin that was Running at the deletion has resolved.
C36_DeletedPresetLeavesNothing_Original ==
  \A id \in PresetIds \ DOMAIN presets :
    /\ id \notin DOMAIN pityAll
    /\ id \notin DOMAIN pityHardHitsAll
    /\ ActiveScope # id

\* C37: from an all-zero ledger, with pity enabled, a fixed config and a fixed
\* list of N >= 2 distinct options, when every spin resolves by natural
\* completion no miss-count ever exceeds hardThreshold + N - 2.
C37_BoundedMissCount ==
  \A s \in DOMAIN pityAll : \A k \in DOMAIN pityAll[s] :
    pityAll[s][k] <= OrDefault(pitySettings.hardThreshold,
                               DEFAULT_HARD_THRESHOLD) + Len(decisions) - 2

C37_Witness ==
  /\ machine = "Completed"
  /\ decisions = << "A", "B", "C" >>
  /\ pitySettings.hardThreshold = 2
  /\ historyEntries[1].method = "hard-pity"
  /\ \E k \in DOMAIN pityAll["global"] : pityAll["global"][k] = 3

\* C38: in every reachable state the page p of the history view satisfies
\* 1 <= p <= max(1, ceil(entries / pageSize)), after any sequence of appends,
\* clears, openings of the view and Prev / Next steps.
C38_HistoryPage_Original ==
  /\ 1 <= historyPage
  /\ historyPage <= historyTotalPages(historyEntries)

====
